---- MODULE Spec2Model ----
(***************************************************************************)
(* Model of the tabular data pipeline of Performance-debate-BP:            *)
(*   ProfilePage.tsx   robustParseValue, processDataRows, handleFileUpload *)
(*   AnalysisPage      metadata, categories, filteredData                  *)
(*   Dashboard.tsx     Dashboard.chartData, DataTable (filter/sort/page)   *)
(*                                                                         *)
(* JavaScript strings are sequences of one-character strings.  JavaScript  *)
(* values are records [t, m, e, s]: t is the type tag, a number is the     *)
(* exact decimal m / 10^e (normalised), a string keeps its characters in s.*)
(***************************************************************************)
EXTENDS Integers, Sequences, FiniteSets

VARIABLES
    raw,            \* robustParseValue: the argument val
    parsed,         \* robustParseValue: the value returned ("pending" before the call)
    csvText,        \* CSV branch of reader.onload: event.target.result
    csvResult,      \* CSV branch of reader.onload: jsonData, or the Error thrown
    isProcessing,   \* ProfilePage state isProcessing
    dataStats,      \* ProfilePage state dataStats (null, or rows and cols)
    dialogOpen,     \* the file chooser opened by fileInputRef.current.click()
    readers,        \* the FileReaders whose read is in flight, with their file
    alerts,         \* number of alert() notifications raised so far
    importCalls,    \* number of onDataImport invocations so far
    data,           \* the active dataset: the DataRow[] last given to onDataImport
    started,        \* number of handleFileUpload runs that started a read
    attempt,        \* the latest import: what was current when it started, and its outcome
    searchTerm,     \* AnalysisPage state searchTerm
    globalCategory, \* AnalysisPage state globalCategory
    activeTab,      \* AnalysisPage state activeTab
    sortConfig,     \* DataTable state sortConfig
    currentPage,    \* DataTable state currentPage
    columnFilters,  \* DataTable state columnFilters
    rangeFilters,   \* DataTable state rangeFilters
    processedData,  \* DataTable memo processedData (<<>> while no DataTable is mounted)
    chartType,      \* ChartBuilder state chartType
    xAxis,          \* ChartBuilder state xAxis
    yAxis,          \* ChartBuilder state yAxis
    chartData,      \* ChartBuilder memo chartData, or the TypeError its render raised
    dashboardChartData, \* Dashboard memo chartData (<<>> while no Dashboard is mounted)
    exported,       \* the CSV text last downloaded by DataTable.exportCSV
    profile,        \* ProfilePage prop profile: the UserProfile the profile store holds
    imageReads      \* the image FileReaders whose read is in flight, with the
                    \* profile their onload closure captured

parseVars  == <<raw, parsed>>
csvVars    == <<csvText, csvResult>>
importVars == <<isProcessing, dataStats, dialogOpen, readers, alerts, importCalls,
                data, started, attempt>>
pageVars   == <<searchTerm, globalCategory, activeTab>>
tableVars  == <<sortConfig, currentPage, columnFilters, rangeFilters, processedData>>
chartVars  == <<chartType, xAxis, yAxis, chartData, dashboardChartData>>
profileVars == <<profile, imageReads>>
vars == <<parseVars, csvVars, importVars, pageVars, tableVars, chartVars, exported,
          profileVars>>

-----------------------------------------------------------------------------
(* Bounds *)

MaxLen == 3             \* longest raw cell text given to robustParseValue
MaxCsvLen == 7          \* longest CSV file content given to the CSV branch
MaxImportLen == 3       \* longest CSV file content of an uploaded file (SpecImport)
MaxImports == 2         \* uploads started in one behaviour (SpecImport)
MaxRows == 3            \* most records of a one-column dataset (SpecTable)
MaxWideRows == 1        \* most records of a two-column dataset (SpecTable)
MaxLongRows == 21       \* most records of a many-page dataset (SpecTable)
MaxPage == 3            \* highest page number the next-page button is followed to

-----------------------------------------------------------------------------
(* JavaScript values *)

Undefined == [t |-> "undefined", m |-> 0, e |-> 0, s |-> <<>>]
Null      == [t |-> "null",      m |-> 0, e |-> 0, s |-> <<>>]
NaN       == [t |-> "nan",       m |-> 0, e |-> 0, s |-> <<>>]
Str(s)    == [t |-> "string",    m |-> 0, e |-> 0, s |-> s]

RECURSIVE Pow10(_)
Pow10(n) == IF n = 0 THEN 1 ELSE 10 * Pow10(n - 1)

\* the number m / 10^e, with trailing zeros of the fraction removed
RECURSIVE Num(_, _)
Num(m, e) ==
    IF e > 0 /\ m % 10 = 0 THEN Num(m \div 10, e - 1)
    ELSE [t |-> "number", m |-> m, e |-> e, s |-> <<>>]

IsNumber(v) == v.t = "number"      \* typeof v === 'number' (no NaN cell is ever stored)

Digits == {"0", "1", "2", "3", "4", "5", "6", "7", "8", "9"}

DigitVal(c) ==
    CASE c = "0" -> 0 [] c = "1" -> 1 [] c = "2" -> 2 [] c = "3" -> 3 [] c = "4" -> 4
      [] c = "5" -> 5 [] c = "6" -> 6 [] c = "7" -> 7 [] c = "8" -> 8 [] c = "9" -> 9

RECURSIVE DigitsToNat(_)
DigitsToNat(ds) ==
    IF ds = <<>> THEN 0
    ELSE 10 * DigitsToNat(SubSeq(ds, 1, Len(ds) - 1)) + DigitVal(ds[Len(ds)])

-----------------------------------------------------------------------------
(* String primitives *)

Whitespace == {" ", "\t", "\n", "\r"}

\* String.prototype.trim
RECURSIVE TrimStart(_)
TrimStart(s) ==
    IF s # <<>> /\ Head(s) \in Whitespace THEN TrimStart(Tail(s)) ELSE s

RECURSIVE TrimEnd(_)
TrimEnd(s) ==
    IF s # <<>> /\ s[Len(s)] \in Whitespace THEN TrimEnd(SubSeq(s, 1, Len(s) - 1)) ELSE s

Trim(s) == TrimEnd(TrimStart(s))

\* s.replace(/[^...]/g, ''): keep only the characters of the class
KeepOnly(s, class) == SelectSeq(s, LAMBDA c : c \in class)

\* s.replace(from, to) with a string pattern: only the first occurrence is replaced
RECURSIVE ReplaceFirst(_, _, _)
ReplaceFirst(s, from, to) ==
    IF s = <<>> THEN <<>>
    ELSE IF Head(s) = from THEN <<to>> \o Tail(s)
    ELSE <<Head(s)>> \o ReplaceFirst(Tail(s), from, to)

\* index of the first character at or after i that is no digit (Len(s)+1 if none)
RECURSIVE DigitRunEnd(_, _)
DigitRunEnd(s, i) ==
    IF i <= Len(s) /\ s[i] \in Digits THEN DigitRunEnd(s, i + 1) ELSE i

\* parseFloat on a text without exponent letters: the longest prefix that is a
\* decimal literal  [+-] digits [. digits]  |  [+-] . digits ; NaN when there is none
DecimalPrefix(s) ==
    LET signed  == s # <<>> /\ s[1] \in {"-", "+"}
        start   == IF signed THEN 2 ELSE 1
        intEnd  == DigitRunEnd(s, start)
        hasDot  == intEnd <= Len(s) /\ s[intEnd] = "."
        fracEnd == IF hasDot THEN DigitRunEnd(s, intEnd + 1) ELSE intEnd
        intDs   == SubSeq(s, start, intEnd - 1)
        fracDs  == IF hasDot THEN SubSeq(s, intEnd + 1, fracEnd - 1) ELSE <<>>
        mag     == DigitsToNat(intDs \o fracDs)
    IN  IF intDs = <<>> /\ fracDs = <<>> THEN NaN
        ELSE Num(IF signed /\ s[1] = "-" THEN 0 - mag ELSE mag, Len(fracDs))

ParseFloat(s) == DecimalPrefix(TrimStart(s))

-----------------------------------------------------------------------------
(* ProfilePage.robustParseValue *)

CandidateClass == Digits \cup {".", ",", "-"}                       \* /[^\d.,-]/g
GuardClass     == Digits \cup {".", ",", "$", "%", "+", "-"} \cup Whitespace   \* /^[\d.,\s$%+-]+$/

NumericCandidate(clean) == ReplaceFirst(KeepOnly(clean, CandidateClass), ",", ".")

GuardTest(clean) == clean # <<>> /\ \A i \in 1..Len(clean) : clean[i] \in GuardClass

\* robustParseValue without the character-class guard of line 41
robustParseValue_NoGuard(val) ==
    IF val.t \in {"null", "undefined"} THEN Str(<<>>)
    ELSE IF val.t = "number" THEN val
    ELSE LET clean  == Trim(val.s)
             parsd  == ParseFloat(NumericCandidate(clean))
         IN  IF clean = <<>> THEN Str(<<>>)
             ELSE IF parsd # NaN THEN parsd
             ELSE Str(clean)

\* robustParseValue returning the stripped candidate instead of the trimmed text
robustParseValue_ReturnsCandidate(val) ==
    IF val.t \in {"null", "undefined"} THEN Str(<<>>)
    ELSE IF val.t = "number" THEN val
    ELSE LET clean  == Trim(val.s)
             parsd  == ParseFloat(NumericCandidate(clean))
         IN  IF clean = <<>> THEN Str(<<>>)
             ELSE IF parsd # NaN /\ GuardTest(clean) THEN parsd
             ELSE Str(NumericCandidate(clean))

robustParseValue(val) ==
    IF val.t \in {"null", "undefined"} THEN Str(<<>>)
    ELSE IF val.t = "number" THEN val
    ELSE LET clean  == Trim(val.s)
             parsd  == ParseFloat(NumericCandidate(clean))
         IN  IF clean = <<>> THEN Str(<<>>)
             ELSE IF parsd # NaN /\ GuardTest(clean) THEN parsd
             ELSE Str(clean)

-----------------------------------------------------------------------------
(* ProfilePage after construction (lines 24-27); no dataset is loaded yet *)

NoStats   == [set |-> FALSE, rows |-> 0, cols |-> 0]
NoAttempt == [outcome |-> "none", alertsBefore |-> 0, callsBefore |-> 0,
              statsBefore |-> NoStats, dataBefore |-> <<>>]

ImportIdle ==
    /\ isProcessing = FALSE
    /\ dataStats = NoStats
    /\ dialogOpen = FALSE
    /\ readers = <<>>
    /\ alerts = 0
    /\ importCalls = 0
    /\ data = <<>>
    /\ started = 0
    /\ attempt = NoAttempt

-----------------------------------------------------------------------------
(* AnalysisPage and DataTable after construction (part_000 lines 14-16,        *)
(* Dashboard.tsx lines 173-176); the dashboard tab is shown first              *)

All == <<"A", "l", "l">>
NoSort == [set |-> FALSE, key |-> <<>>, direction |-> "asc"]

TableUnmounted ==
    /\ sortConfig = NoSort
    /\ currentPage = 1
    /\ columnFilters = <<>>
    /\ rangeFilters = <<>>
    /\ processedData = <<>>

ChartUnmounted == [st |-> "unmounted", rows |-> <<>>]
NoExport == [done |-> FALSE, text |-> <<>>]

BuilderUnmounted ==
    /\ chartType = "bar"
    /\ xAxis = <<>>
    /\ yAxis = <<>>
    /\ chartData = ChartUnmounted

\* the page as constructed, but for the chart of the Dashboard it shows
PageIdle ==
    /\ searchTerm = <<>>
    /\ globalCategory = All
    /\ activeTab = "dashboard"
    /\ TableUnmounted
    /\ BuilderUnmounted
    /\ exported = NoExport

\* the profile store before any edit: no name, no organization, no image; no
\* image read is in flight (line 113: a reader exists only after a file is chosen)
ProfileIdle ==
    /\ profile = [fullName |-> <<>>, organization |-> <<>>, image |-> <<>>]
    /\ imageReads = <<>>

\* the page over no records
ViewIdle ==
    /\ PageIdle
    /\ dashboardChartData = <<>>

-----------------------------------------------------------------------------
(* Specification SpecParse: robustParseValue applied to every bounded raw cell *)

ParseAlphabet == {"0", "1", ".", ",", "-", "+", "$", "%", " ", "a"}

Texts(alphabet, n) == UNION {[1..k -> alphabet] : k \in 0..n}

RawCells == {Null, Undefined, Num(0, 0), Num(15, 1), Num(0 - 2, 0)}
              \cup {Str(s) : s \in Texts(ParseAlphabet, MaxLen)}

Pending == [t |-> "pending", m |-> 0, e |-> 0, s |-> <<>>]

NotRun == [st |-> "pending", rows |-> <<>>]

InitParse ==
    /\ raw \in RawCells
    /\ parsed = Pending
    /\ csvText = <<>>
    /\ csvResult = NotRun
    /\ ImportIdle
    /\ ViewIdle
    /\ ProfileIdle

Parse ==
    /\ parsed = Pending
    /\ parsed' = robustParseValue(raw)
    /\ UNCHANGED <<raw, csvVars, importVars, pageVars, tableVars, chartVars, exported,
                   profileVars>>

NextParse == Parse

SpecParse == InitParse /\ [][NextParse]_vars

-----------------------------------------------------------------------------
(* JavaScript objects (DataRow): the own properties in Object.keys order, i.e. *)
(* array-index keys in ascending numeric order, then the others in insertion   *)
(* order.  An object is a sequence of [k |-> key, v |-> value].                *)

IsArrayIndex(k) ==
    /\ k # <<>>
    /\ \A i \in 1..Len(k) : k[i] \in Digits
    /\ (k[1] # "0" \/ Len(k) = 1)

ObjKeys(o) == [i \in 1..Len(o) |-> o[i].k]
ObjHas(o, k) == \E i \in 1..Len(o) : o[i].k = k
ObjGet(o, k) ==
    IF ObjHas(o, k) THEN o[CHOOSE i \in 1..Len(o) : o[i].k = k].v ELSE Undefined

\* o[k] = v
ObjSet(o, k, v) ==
    IF ObjHas(o, k)
    THEN [i \in 1..Len(o) |-> IF o[i].k = k THEN [k |-> k, v |-> v] ELSE o[i]]
    ELSE IF IsArrayIndex(k)
    THEN LET before == SelectSeq(o, LAMBDA p :
                           IsArrayIndex(p.k) /\ DigitsToNat(p.k) < DigitsToNat(k))
             after  == SelectSeq(o, LAMBDA p :
                           ~(IsArrayIndex(p.k) /\ DigitsToNat(p.k) < DigitsToNat(k)))
         IN  before \o <<[k |-> k, v |-> v]>> \o after
    ELSE Append(o, [k |-> k, v |-> v])

-----------------------------------------------------------------------------
(* ProfilePage.processDataRows and the CSV branch of handleFileUpload *)

RECURSIVE CleanRowFrom(_, _, _)
CleanRowFrom(row, keys, cleanRow) ==
    IF keys = <<>> THEN cleanRow
    ELSE CleanRowFrom(row, Tail(keys),
                      ObjSet(cleanRow, Head(keys), robustParseValue(ObjGet(row, Head(keys)))))

processDataRows(rawRows) ==
    [j \in 1..Len(rawRows) |-> CleanRowFrom(rawRows[j], ObjKeys(rawRows[j]), <<>>)]

\* text.split(/\r?\n/)
RECURSIVE SplitLinesFrom(_, _, _)
SplitLinesFrom(s, i, cur) ==
    IF i > Len(s) THEN <<cur>>
    ELSE IF s[i] = "\n" THEN <<cur>> \o SplitLinesFrom(s, i + 1, <<>>)
    ELSE IF s[i] = "\r" /\ i < Len(s) /\ s[i + 1] = "\n"
         THEN <<cur>> \o SplitLinesFrom(s, i + 2, <<>>)
    ELSE SplitLinesFrom(s, i + 1, Append(cur, s[i]))

SplitLines(s) == SplitLinesFrom(s, 1, <<>>)

QuotesFrom(s, i) == Cardinality({j \in i..Len(s) : s[j] = "\""})

\* every comma separates
IsSeparator_AnyComma(s, i) == s[i] = ","

\* /,(?=(?:(?:[^"]*"){2})*[^"]*$)/ matches at i: a comma followed, up to the end
\* of the line, by an even number of double quotes
IsSeparator(s, i) == s[i] = "," /\ QuotesFrom(s, i + 1) % 2 = 0

\* line.split(/,(?=(?:(?:[^"]*"){2})*[^"]*$)/)
RECURSIVE SplitCsvFrom(_, _, _)
SplitCsvFrom(s, i, cur) ==
    IF i > Len(s) THEN <<cur>>
    ELSE IF IsSeparator(s, i) THEN <<cur>> \o SplitCsvFrom(s, i + 1, <<>>)
    ELSE SplitCsvFrom(s, i + 1, Append(cur, s[i]))

SplitCsvLine(s) == SplitCsvFrom(s, 1, <<>>)

\* s.replace(/^"|"$/g, '')
StripQuotes(s) ==
    LET a == IF s # <<>> /\ s[1] = "\"" THEN Tail(s) ELSE s
    IN  IF a # <<>> /\ a[Len(a)] = "\"" THEN SubSeq(a, 1, Len(a) - 1) ELSE a

CsvLines(text) == SelectSeq(SplitLines(text), LAMBDA line : Trim(line) # <<>>)

CsvHeaders(lines) ==
    LET hs == SplitCsvLine(lines[1])
    IN  [i \in 1..Len(hs) |-> StripQuotes(Trim(hs[i]))]

\* (values[index] || '').trim().replace(/^"|"$/g, '')
CsvCell(values, index) ==
    StripQuotes(Trim(IF index <= Len(values) THEN values[index] ELSE <<>>))

RECURSIVE CsvRowFrom(_, _, _, _)
CsvRowFrom(headers, values, index, row) ==
    IF index > Len(headers) THEN row
    ELSE CsvRowFrom(headers, values, index + 1,
                    ObjSet(row, headers[index], Str(CsvCell(values, index))))

\* the data rows taken from the header line on (lines.slice(0, -1) for lines.slice(1))
CsvRawRows_FromHeader(lines) ==
    LET headers == CsvHeaders(lines)
    IN  [j \in 1..(Len(lines) - 1) |->
            CsvRowFrom(headers, SplitCsvLine(lines[j]), 1, <<>>)]

CsvRawRows(lines) ==
    LET headers == CsvHeaders(lines)
    IN  [j \in 1..(Len(lines) - 1) |->
            CsvRowFrom(headers, SplitCsvLine(lines[j + 1]), 1, <<>>)]

\* lines 79-92: the Error of line 81 is thrown, or jsonData is produced
CsvToJson(text) ==
    LET lines == CsvLines(text)
    IN  IF Len(lines) < 2 THEN [st |-> "thrown", rows |-> <<>>]
        ELSE [st |-> "ok", rows |-> processDataRows(CsvRawRows(lines))]

-----------------------------------------------------------------------------
(* Specification SpecCsv: the CSV branch applied to every bounded file content *)

CsvAlphabet == {"a", "1", ",", "\"", "\n"}

InitCsv ==
    /\ csvText \in Texts(CsvAlphabet, MaxCsvLen)
    /\ csvResult = NotRun
    /\ raw = Null
    /\ parsed = Pending
    /\ ImportIdle
    /\ ViewIdle
    /\ ProfileIdle

ParseCsv ==
    /\ csvResult = NotRun
    /\ csvResult' = CsvToJson(csvText)
    /\ UNCHANGED <<parseVars, csvText, importVars, pageVars, tableVars, chartVars,
                   exported, profileVars>>

NextCsv == ParseCsv

SpecCsv == InitCsv /\ [][NextCsv]_vars

-----------------------------------------------------------------------------
(* JavaScript conversions and comparisons used by the analysis views *)

\* the printable ASCII characters, code 32 first (code 96 by name)
AsciiChars ==
    << " ", "!", "\"", "#", "$", "%", "&", "'", "(", ")", "*", "+",
       ",", "-", ".", "/", "0", "1", "2", "3", "4", "5", "6", "7",
       "8", "9", ":", ";", "<", "=", ">", "?", "@", "A", "B", "C",
       "D", "E", "F", "G", "H", "I", "J", "K", "L", "M", "N", "O",
       "P", "Q", "R", "S", "T", "U", "V", "W", "X", "Y", "Z", "[",
       "\\", "]", "^", "_", "grave", "a", "b", "c", "d", "e", "f", "g",
       "h", "i", "j", "k", "l", "m", "n", "o", "p", "q", "r", "s",
       "t", "u", "v", "w", "x", "y", "z", "{", "|", "}", "~" >>

AsciiCode ==
    [c \in {AsciiChars[i] : i \in 1..Len(AsciiChars)} |->
        31 + (CHOOSE i \in 1..Len(AsciiChars) : AsciiChars[i] = c)]

CharCode(c) ==
    CASE c = "\t" -> 9 [] c = "\n" -> 10 [] c = "\r" -> 13
      [] OTHER -> AsciiCode[c]

\* String.prototype.toLowerCase
ToLowerChar(c) ==
    IF CharCode(c) >= 65 /\ CharCode(c) <= 90 THEN AsciiChars[CharCode(c) + 32 - 31] ELSE c
ToLowerCase(s) == [i \in 1..Len(s) |-> ToLowerChar(s[i])]

\* String.prototype.includes
Includes(s, sub) ==
    \E i \in 0..(Len(s) - Len(sub)) : SubSeq(s, i + 1, i + Len(sub)) = sub

RECURSIVE NatToDigits(_)
NatToDigits(n) ==
    IF n < 10 THEN <<AsciiChars[n + 17]>>
    ELSE Append(NatToDigits(n \div 10), AsciiChars[(n % 10) + 17])

RECURSIVE PadLeft(_, _)
PadLeft(ds, n) == IF Len(ds) >= n THEN ds ELSE PadLeft(<<"0">> \o ds, n)

Abs(n) == IF n < 0 THEN 0 - n ELSE n

\* Number.prototype.toString of m / 10^e (no exponent notation in the modelled range)
NumToString(v) ==
    LET a    == Abs(v.m)
        int  == NatToDigits(a \div Pow10(v.e))
        frac == IF v.e = 0 THEN <<>> ELSE <<".">> \o PadLeft(NatToDigits(a % Pow10(v.e)), v.e)
    IN  (IF v.m < 0 THEN <<"-">> ELSE <<>>) \o int \o frac

\* String(v)
JsString(v) ==
    CASE v.t = "string"    -> v.s
      [] v.t = "number"    -> NumToString(v)
      [] v.t = "undefined" -> <<"u", "n", "d", "e", "f", "i", "n", "e", "d">>
      [] v.t = "null"      -> <<"n", "u", "l", "l">>
      [] v.t = "nan"       -> <<"N", "a", "N">>

\* Number(v): a text converts when, trimmed, it is empty (0) or is as a whole a
\* decimal literal; the modelled texts hold no exponent, hex or Infinity form
StringToNumber(t) ==
    LET signed == t # <<>> /\ t[1] \in {"-", "+"}
        start  == IF signed THEN 2 ELSE 1
        intEnd == DigitRunEnd(t, start)
        hasDot == intEnd <= Len(t) /\ t[intEnd] = "."
        end    == IF hasDot THEN DigitRunEnd(t, intEnd + 1) ELSE intEnd
    IN  IF t = <<>> THEN Num(0, 0)
        ELSE IF end = Len(t) + 1 THEN DecimalPrefix(t) ELSE NaN

ToNumber(v) ==
    CASE v.t = "number" -> v
      [] v.t = "null"   -> Num(0, 0)
      [] v.t = "string" -> StringToNumber(Trim(v.s))
      [] OTHER -> NaN

\* x < y on numbers; false when either is NaN
NumLess(x, y) ==
    x.t = "number" /\ y.t = "number" /\ x.m * Pow10(y.e) < y.m * Pow10(x.e)
NumLessEq(x, y) ==
    x.t = "number" /\ y.t = "number" /\ x.m * Pow10(y.e) <= y.m * Pow10(x.e)

\* s < t on strings: by code units
RECURSIVE StrLess(_, _)
StrLess(s, t) ==
    IF t = <<>> THEN FALSE
    ELSE IF s = <<>> THEN TRUE
    ELSE IF s[1] = t[1] THEN StrLess(Tail(s), Tail(t))
    ELSE CharCode(s[1]) < CharCode(t[1])

\* a < b (abstract relational comparison): two strings compare as strings,
\* anything else as numbers
JsLess(a, b) ==
    IF a.t = "string" /\ b.t = "string" THEN StrLess(a.s, b.s)
    ELSE NumLess(ToNumber(a), ToNumber(b))

\* JavaScript truthiness of a string or of undefined
Truthy(v) == v.t = "string" /\ v.s # <<>>

-----------------------------------------------------------------------------
(* AnalysisPage: metadata, categories, filteredData *)

CATEGORY_LIMIT == 30

NumericCount(d, header) ==
    Cardinality({j \in 1..Len(d) : IsNumber(ObjGet(d[j], header))})

\* metadata classifying a column numeric from an exact half on
Metadata_AtLeastHalf(d) ==
    IF Len(d) = 0 THEN <<>>
    ELSE LET headers == ObjKeys(d[1])
         IN  [i \in 1..Len(headers) |->
                 [name |-> headers[i],
                  type |-> IF 2 * NumericCount(d, headers[i]) >= Len(d)
                           THEN "number" ELSE "string"]]

\* lines 19-27; numericCount > data.length / 2 is decided on integers as
\* 2 * numericCount > data.length
Metadata(d) ==
    IF Len(d) = 0 THEN <<>>
    ELSE LET headers == ObjKeys(d[1])
         IN  [i \in 1..Len(headers) |->
                 [name |-> headers[i],
                  type |-> IF 2 * NumericCount(d, headers[i]) > Len(d)
                           THEN "number" ELSE "string"]]

StringCols(md) == SelectSeq(md, LAMBDA m : m.type = "string")

\* Array.from(new Set(values)): the first occurrence of each value, in order
RECURSIVE Distinct(_)
Distinct(vals) ==
    IF vals = <<>> THEN <<>>
    ELSE LET front == SubSeq(vals, 1, Len(vals) - 1)
             last  == vals[Len(vals)]
         IN  IF \E i \in 1..Len(front) : front[i] = last
             THEN Distinct(front) ELSE Append(Distinct(front), last)

\* Array.prototype.slice(start, end) with 0 <= start <= end
Slice(q, start, end) ==
    LET from == IF start < Len(q) THEN start ELSE Len(q)
        to   == IF end < Len(q) THEN end ELSE Len(q)
    IN  SubSeq(q, from + 1, to)

\* lines 29-35
Categories(d, md) ==
    IF StringCols(md) = <<>> THEN <<>>
    ELSE LET firstCol == StringCols(md)[1].name
             strs     == [j \in 1..Len(d) |-> JsString(ObjGet(d[j], firstCol))]
         IN  Slice(Distinct(SelectSeq(strs, LAMBDA v : v # <<>>)), 0, CATEGORY_LIMIT)

\* metadata.find(m => m.type === 'string')?.name
FindStringCol(md) ==
    IF \E i \in 1..Len(md) : md[i].type = "string"
    THEN Str(md[CHOOSE i \in 1..Len(md) :
                   md[i].type = "string" /\ \A j \in 1..(i - 1) : md[j].type # "string"].name)
    ELSE Undefined

\* lines 39-41
MatchesSearch(row, term) ==
    \E i \in 1..Len(row) :
        Includes(ToLowerCase(JsString(row[i].v)), ToLowerCase(term))

\* line 43
MatchesCategory(row, md, category) ==
    \/ category = All
    \/ /\ Truthy(FindStringCol(md))
       /\ JsString(ObjGet(row, FindStringCol(md).s)) = category

\* lines 37-46
FilteredData(d, term, category) ==
    LET md == Metadata(d)
    IN  SelectSeq(d, LAMBDA row :
            MatchesSearch(row, term) /\ MatchesCategory(row, md, category))

-----------------------------------------------------------------------------
(* DataTable: processedData, pagination *)

PAGE_SIZE == 10
PAGE_BUTTONS == 5

\* lines 193-198: one filter per key of columnFilters, in key order
RECURSIVE ApplyColumnFilters(_, _, _)
ApplyColumnFilters(rows, keys, cf) ==
    IF keys = <<>> THEN rows
    ELSE LET col == Head(keys)
             val == ToLowerCase(ObjGet(cf, col).s)
             kept == IF val # <<>>
                     THEN SelectSeq(rows, LAMBDA row :
                              Includes(ToLowerCase(JsString(ObjGet(row, col))), val))
                     ELSE rows
         IN  ApplyColumnFilters(kept, Tail(keys), cf)

RangeOf(rf, col) == rf[CHOOSE i \in 1..Len(rf) : rf[i].k = col].v

\* lines 201-205: one min and one max filter per key of rangeFilters, in key order
RECURSIVE ApplyRangeFilters(_, _, _)
ApplyRangeFilters(rows, keys, rf) ==
    IF keys = <<>> THEN rows
    ELSE LET col  == Head(keys)
             min  == RangeOf(rf, col).min
             max  == RangeOf(rf, col).max
             byMin == IF Truthy(min)
                      THEN SelectSeq(rows, LAMBDA row :
                               NumLessEq(ToNumber(min), ToNumber(ObjGet(row, col))))
                      ELSE rows
             byMax == IF Truthy(max)
                      THEN SelectSeq(byMin, LAMBDA row :
                               NumLessEq(ToNumber(ObjGet(row, col)), ToNumber(max)))
                      ELSE byMin
         IN  ApplyRangeFilters(byMax, Tail(keys), rf)

\* a[key] ?? ''
SortValue(row, key) ==
    IF ObjGet(row, key).t \in {"undefined", "null"} THEN Str(<<>>) ELSE ObjGet(row, key)

\* lines 213-214: the comparator's result on the two values aVal and bVal
CompareValues(aVal, bVal, direction) ==
    IF JsLess(aVal, bVal) THEN (IF direction = "asc" THEN 0 - 1 ELSE 1)
    ELSE IF JsLess(bVal, aVal) THEN (IF direction = "asc" THEN 1 ELSE 0 - 1)
    ELSE 0

\* lines 210-216: the comparator given to sort
Compare(a, b, sc) ==
    CompareValues(SortValue(a, sc.key), SortValue(b, sc.key), sc.direction)

\* ECMAScript's "consistent comparator" conditions for the results cmp over
\* the values V; on values of one type (all numbers, or all strings) the
\* comparator is the usual total order
Consistent(V, cmp) ==
    \/ \A v \in V : v.t = "number"
    \/ \A v \in V : v.t = "string"
    \/ \A a, b, c \in V :
       /\ cmp[<<a, a>>] = 0
       /\ cmp[<<a, b>>] = 0 => cmp[<<b, a>>] = 0
       /\ (cmp[<<a, b>>] = 0 /\ cmp[<<b, c>>] = 0) => cmp[<<a, c>>] = 0
       /\ (cmp[<<a, b>>] < 0 /\ cmp[<<b, c>>] < 0) => cmp[<<a, c>>] < 0
       /\ (cmp[<<a, b>>] > 0 /\ cmp[<<b, c>>] > 0) => cmp[<<a, c>>] > 0

\* the comparator reads only the sort column of the records being sorted
SortColumn(rows, key) == {SortValue(rows[i], key) : i \in 1..Len(rows)}

ConsistentComparator(rows, sc) ==
    Consistent(SortColumn(rows, sc.key),
               [p \in SortColumn(rows, sc.key) \X SortColumn(rows, sc.key) |->
                    CompareValues(p[1], p[2], sc.direction)])

\* the stable sort: each record goes behind the records that do not follow it
RECURSIVE StableSort(_, _)
StableSort(rows, sc) ==
    IF rows = <<>> THEN <<>>
    ELSE LET sorted == StableSort(SubSeq(rows, 1, Len(rows) - 1), sc)
             x      == rows[Len(rows)]
             k      == Cardinality({i \in 1..Len(sorted) : Compare(sorted[i], x, sc) <= 0})
         IN  SubSeq(sorted, 1, k) \o <<x>> \o SubSeq(sorted, k + 1, Len(sorted))

Permutations(rows) ==
    LET n == Len(rows)
    IN  { [i \in 1..n |-> rows[f[i]]] :
            f \in {g \in [1..n -> 1..n] : \A i, j \in 1..n : g[i] = g[j] => i = j} }

\* Array.prototype.sort(comparefn): stable when the comparator is consistent;
\* otherwise the order is implementation-defined (ECMAScript 23.1.3.30), the
\* result being some permutation of the records
SortOutcomes(rows, sc) ==
    IF ConsistentComparator(rows, sc) THEN {StableSort(rows, sc)} ELSE Permutations(rows)

\* the range filters applied to the records as given, not to what the text
\* filters kept
TableFiltered_RangeOnly(tableData, cf, rf) ==
    ApplyRangeFilters(tableData, ObjKeys(rf), rf)

\* lines 190-205
TableFiltered(tableData, cf, rf) ==
    ApplyRangeFilters(ApplyColumnFilters(tableData, ObjKeys(cf), cf), ObjKeys(rf), rf)

\* lines 189-220: the values the memo can take
ProcessedOutcomes(tableData, cf, rf, sc) ==
    IF sc.set THEN SortOutcomes(TableFiltered(tableData, cf, rf), sc)
    ELSE {TableFiltered(tableData, cf, rf)}

\* line 223: Math.ceil(length / PAGE_SIZE)
TotalPagesOf(rows) == (Len(rows) + PAGE_SIZE - 1) \div PAGE_SIZE

\* a page slice reaching one record into the next page
PageOf_Overlapping(rows, page) == Slice(rows, (page - 1) * PAGE_SIZE, page * PAGE_SIZE + 1)

\* line 224
PageOf(rows, page) == Slice(rows, (page - 1) * PAGE_SIZE, page * PAGE_SIZE)

\* Dashboard.tsx lines 15 and 36: strCols[0]?.name
DashboardStringCol(md) ==
    IF StringCols(md) = <<>> THEN Undefined ELSE Str(StringCols(md)[1].name)

-----------------------------------------------------------------------------
(* Charts: Dashboard.chartData (Dashboard.tsx lines 35-51) and                 *)
(* ChartBuilder.chartData (ChartBuilder.tsx lines 23-55)                       *)

DASHBOARD_ROWS == 100
DASHBOARD_GROUPS == 10
BUILDER_ROWS == 500
BUILDER_GROUPS == 15
BINS == 10

\* JavaScript truthiness of a cell value or of a number
JsTruthy(v) ==
    CASE v.t = "string" -> v.s # <<>>
      [] v.t = "number" -> v.m # 0
      [] OTHER -> FALSE

\* x + y on numbers; NaN when either is NaN
NumAdd(x, y) ==
    IF x.t # "number" \/ y.t # "number" THEN NaN
    ELSE IF x.e >= y.e THEN Num(x.m + y.m * Pow10(x.e - y.e), x.e)
    ELSE Num(x.m * Pow10(y.e - x.e) + y.m, y.e)

\* reduce((a, b) => a + b, 0)
RECURSIVE SumOf(_)
SumOf(nums) ==
    IF nums = <<>> THEN Num(0, 0)
    ELSE NumAdd(SumOf(SubSeq(nums, 1, Len(nums) - 1)), nums[Len(nums)])

RECURSIVE Gcd(_, _)
Gcd(a, b) == IF b = 0 THEN a ELSE Gcd(b, a % b)

\* sum / n for a count n > 0: the exact fraction p / q in lowest terms (q > 0),
\* or NaN
Quotient(sum, n) ==
    IF sum.t # "number" THEN [nan |-> TRUE, p |-> 0, q |-> 1]
    ELSE [nan |-> FALSE,
          p |-> sum.m \div Gcd(Abs(sum.m), n * Pow10(sum.e)),
          q |-> (n * Pow10(sum.e)) \div Gcd(Abs(sum.m), n * Pow10(sum.e))]

\* grouped[key].reduce((a, b) => a + b, 0) / grouped[key].length
Mean(nums) == Quotient(SumOf(nums), Len(nums))

\* grouped[key] = grouped[key] || []; grouped[key].push(val)
Push(grouped, key, val) ==
    ObjSet(grouped, key,
           Append(IF ObjHas(grouped, key) THEN ObjGet(grouped, key) ELSE <<>>, val))

\* the forEach that fills grouped, given each record's key and value
RECURSIVE Grouped(_, _)
Grouped(keys, vals) ==
    IF keys = <<>> THEN <<>>
    ELSE Push(Grouped(SubSeq(keys, 1, Len(keys) - 1), SubSeq(vals, 1, Len(vals) - 1)),
              keys[Len(keys)], vals[Len(vals)])

\* Object.keys(grouped).map(key => ({ name: key, value: mean }))
MeansOf(grouped) ==
    [i \in 1..Len(grouped) |-> [name |-> grouped[i].k, value |-> Mean(grouped[i].v)]]

\* (a, b) => b.value - a.value; sort takes a NaN result as 0
DescByValue(a, b) ==
    IF a.value.nan \/ b.value.nan THEN 0
    ELSE IF b.value.p * a.value.q > a.value.p * b.value.q THEN 1
    ELSE IF b.value.p * a.value.q < a.value.p * b.value.q THEN 0 - 1
    ELSE 0

\* ECMAScript's "consistent comparator" conditions for DescByValue over the
\* entries being sorted; without a NaN it is the usual order of the numbers
ConsistentDesc(entries) ==
    \/ \A i \in 1..Len(entries) : ~entries[i].value.nan
    \/ \A i, j, k \in 1..Len(entries) :
       /\ (DescByValue(entries[i], entries[j]) = 0 /\ DescByValue(entries[j], entries[k]) = 0)
             => DescByValue(entries[i], entries[k]) = 0
       /\ (DescByValue(entries[i], entries[j]) < 0 /\ DescByValue(entries[j], entries[k]) < 0)
             => DescByValue(entries[i], entries[k]) < 0
       /\ (DescByValue(entries[i], entries[j]) > 0 /\ DescByValue(entries[j], entries[k]) > 0)
             => DescByValue(entries[i], entries[k]) > 0

\* the stable sort by DescByValue
RECURSIVE StableDesc(_)
StableDesc(entries) ==
    IF entries = <<>> THEN <<>>
    ELSE LET sorted == StableDesc(SubSeq(entries, 1, Len(entries) - 1))
             x      == entries[Len(entries)]
             k      == Cardinality({i \in 1..Len(sorted) : DescByValue(sorted[i], x) <= 0})
         IN  SubSeq(sorted, 1, k) \o <<x>> \o SubSeq(sorted, k + 1, Len(sorted))

\* .sort((a, b) => b.value - a.value): stable when the comparator is
\* consistent, otherwise some permutation (implementation-defined)
SortDescOutcomes(entries) ==
    IF ConsistentDesc(entries) THEN {StableDesc(entries)} ELSE Permutations(entries)

\* the name of the first numeric column: numCols[0]?.name (Dashboard.tsx lines
\* 14 and 37), metadata.find(m => m.type === 'number')?.name (ChartBuilder.tsx
\* line 20)
FindNumberCol(md) ==
    IF \E i \in 1..Len(md) : md[i].type = "number"
    THEN Str(md[CHOOSE i \in 1..Len(md) :
                   md[i].type = "number" /\ \A j \in 1..(i - 1) : md[j].type # "number"].name)
    ELSE Undefined

\* Dashboard.tsx lines 40-50, given the two column names
DashboardGroupMeans(rows, stringCol, numCol) ==
    SortDescOutcomes(MeansOf(Slice(
        Grouped([i \in 1..Len(rows) |-> JsString(ObjGet(rows[i], stringCol))],
                [i \in 1..Len(rows) |-> ToNumber(ObjGet(rows[i], numCol))]),
        0, DASHBOARD_GROUPS)))

\* Dashboard.tsx lines 35-51: the values the memo can take
DashboardChartOutcomes(d, md) ==
    IF ~Truthy(DashboardStringCol(md)) \/ ~Truthy(FindNumberCol(md)) THEN {<<>>}
    ELSE DashboardGroupMeans(Slice(d, 0, DASHBOARD_ROWS),
                             DashboardStringCol(md).s, FindNumberCol(md).s)

\* String(d[xAxis] || 'N/A')
XValue(v) == IF JsTruthy(v) THEN JsString(v) ELSE <<"N", "/", "A">>

\* Number(d[yAxis]) || 0
YValue(n) == IF n.t = "number" THEN n ELSE Num(0, 0)

\* ChartBuilder.tsx lines 43-54: the values the grouped chart can take
BuilderGroupMeans(rows, x, y) ==
    { Slice(sorted, 0, BUILDER_GROUPS) :
        sorted \in SortDescOutcomes(MeansOf(
            Grouped([i \in 1..Len(rows) |-> XValue(ObjGet(rows[i], x))],
                    [i \in 1..Len(rows) |-> YValue(ToNumber(ObjGet(rows[i], y)))]))) }

\* ChartBuilder.tsx line 25
HistogramValues(d, y) ==
    SelectSeq([i \in 1..Len(d) |-> ToNumber(ObjGet(d[i], y))], LAMBDA v : v.t = "number")

\* Math.min(...values) and Math.max(...values) of a non-empty list
MinOf(values) ==
    CHOOSE v \in {values[i] : i \in 1..Len(values)} :
        \A i \in 1..Len(values) : NumLessEq(v, values[i])
MaxOf(values) ==
    CHOOSE v \in {values[i] : i \in 1..Len(values)} :
        \A i \in 1..Len(values) : NumLessEq(values[i], v)

\* the integer v * 10^e, for e no less than the fraction digits of v
Scaled(v, e) == v.m * Pow10(e - v.e)

\* line 36 for max > min: Math.min(Math.floor((v - min) / step), bins - 1) with
\* step = (max - min) / bins, the quotient taken exactly (a double's rounding
\* can move a value on a bin boundary to the bin below; the index stays in
\* 0..bins-1 either way)
BinIndex(v, min, max) ==
    LET e   == IF v.e >= max.e /\ v.e >= min.e THEN v.e
               ELSE IF max.e >= min.e THEN max.e ELSE min.e
        bin == (BINS * (Scaled(v, e) - Scaled(min, e))) \div (Scaled(max, e) - Scaled(min, e))
    IN  IF bin < BINS - 1 THEN bin ELSE BINS - 1

\* the render raised a TypeError
ChartThrew == [st |-> "threw", rows |-> <<>>]

\* lines 26-39 for a non-empty list of values: the frequency of each bin (the
\* range labels are not modelled).  With max = min, step is 0, (v - min) / step
\* is NaN, and distribution[NaN].frequency++ (line 37) raises a TypeError.
Distribution(values, min, max) ==
    IF min = max THEN ChartThrew
    ELSE [st |-> "ok",
          rows |-> [b \in 1..BINS |->
                      Cardinality({i \in 1..Len(values) :
                                      BinIndex(values[i], min, max) = b - 1})]]

\* lines 24-40
Histogram(values) ==
    IF values = <<>> THEN [st |-> "ok", rows |-> <<>>]
    ELSE Distribution(values, MinOf(values), MaxOf(values))

\* ChartBuilder.tsx lines 23-55: the values the memo can take
BuilderChartOutcomes(d, type, x, y) ==
    IF type = "histogram" THEN {Histogram(HistogramValues(d, y))}
    ELSE { [st |-> "ok", rows |-> rows] :
             rows \in BuilderGroupMeans(Slice(d, 0, BUILDER_ROWS), x, y) }

\* ChartBuilder.tsx lines 19-20: the initial axis, for non-empty metadata
InitialAxis(found, md) == IF Truthy(found) THEN found.s ELSE md[1].name

metadata      == Metadata(data)
categories    == Categories(data, metadata)
filteredData  == FilteredData(data, searchTerm, globalCategory)
totalPages    == TotalPagesOf(processedData)
paginatedData == PageOf(processedData, currentPage)

-----------------------------------------------------------------------------
(* Specification SpecImport: ProfilePage.handleFileUpload and its FileReader *)

ImportAlphabet == {"a", ",", "\n"}

\* XLSX.read / sheet_to_json are a library: the decode throws, or yields raw rows
ExcelDecodes ==
    { [st |-> "thrown", rows |-> <<>>],
      [st |-> "ok", rows |-> <<>>],
      [st |-> "ok", rows |-> << <<[k |-> <<"a">>, v |-> Str(<<" ", "1">>)],
                                 [k |-> <<"b">>, v |-> Num(2, 0)]>> >>] }

\* a selected file: its kind (line 64), whether the read succeeds, and what the
\* read delivers (CSV text) or what the workbook bytes decode to
Files ==
    { [isExcel |-> FALSE, readable |-> r, text |-> t, decode |-> NotRun] :
          r \in BOOLEAN, t \in Texts(ImportAlphabet, MaxImportLen) }
    \cup
    { [isExcel |-> TRUE, readable |-> r, text |-> <<>>, decode |-> x] :
          r \in BOOLEAN, x \in ExcelDecodes }

InitImport ==
    /\ ImportIdle
    /\ ViewIdle
    /\ ProfileIdle
    /\ raw = Null
    /\ parsed = Pending
    /\ csvText = <<>>
    /\ csvResult = NotRun

\* the dropzone without its guard: a click opens the chooser also while an
\* import is processing
ClickDropzone_Unguarded ==
    /\ ~dialogOpen
    /\ started < MaxImports
    /\ dialogOpen' = TRUE
    /\ UNCHANGED <<isProcessing, dataStats, readers, alerts, importCalls, data,
                   started, attempt, parseVars, csvVars, pageVars, tableVars, chartVars,
                   exported, profileVars>>

\* line 198: onClick={() => !isProcessing && fileInputRef.current?.click()}
ClickDropzone ==
    /\ ~isProcessing
    /\ ~dialogOpen
    /\ started < MaxImports
    /\ dialogOpen' = TRUE
    /\ UNCHANGED <<isProcessing, dataStats, readers, alerts, importCalls, data,
                   started, attempt, parseVars, csvVars, pageVars, tableVars, chartVars,
                   exported, profileVars>>

\* the chooser is dismissed: no change event, or no file (line 60)
CancelDialog ==
    /\ dialogOpen
    /\ dialogOpen' = FALSE
    /\ UNCHANGED <<isProcessing, dataStats, readers, alerts, importCalls, data,
                   started, attempt, parseVars, csvVars, pageVars, tableVars, chartVars,
                   exported, profileVars>>

\* lines 58-64 and 106-110: a file is chosen and its read starts
handleFileUpload(file) ==
    /\ dialogOpen
    /\ dialogOpen' = FALSE
    /\ isProcessing' = TRUE
    /\ readers' = Append(readers, file)
    /\ started' = started + 1
    /\ attempt' = [outcome |-> "reading", alertsBefore |-> alerts,
                   callsBefore |-> importCalls, statsBefore |-> dataStats,
                   dataBefore |-> data]
    /\ UNCHANGED <<dataStats, alerts, importCalls, data, parseVars, csvVars, pageVars,
                   tableVars, chartVars, exported, profileVars>>

RemoveAt(q, i) == SubSeq(q, 1, i - 1) \o SubSeq(q, i + 1, Len(q))

\* lines 68-93: jsonData, or the exception thrown inside the try block
JsonDataOf(file) ==
    IF file.isExcel
    THEN IF file.decode.st = "thrown" THEN file.decode
         ELSE [st |-> "ok", rows |-> processDataRows(file.decode.rows)]
    ELSE CsvToJson(file.text)

\* lines 66-104: reader.onload
ReaderOnLoad(i) ==
    /\ i \in 1..Len(readers)
    /\ readers[i].readable
    /\ LET json == JsonDataOf(readers[i])
       IN  IF json.st = "ok"
           THEN /\ dataStats' = [set |-> TRUE, rows |-> Len(json.rows),
                                 cols |-> IF Len(json.rows) > 0 THEN Len(json.rows[1]) ELSE 0]
                /\ importCalls' = importCalls + 1
                /\ data' = json.rows
                /\ alerts' = alerts
                /\ attempt' = [attempt EXCEPT !.outcome = "ok"]
           ELSE /\ alerts' = alerts + 1
                /\ attempt' = [attempt EXCEPT !.outcome = "failed"]
                /\ UNCHANGED <<dataStats, importCalls, data, profileVars>>
    /\ isProcessing' = FALSE
    /\ readers' = RemoveAt(readers, i)
    /\ UNCHANGED <<dialogOpen, started, parseVars, csvVars, pageVars, tableVars, chartVars,
                   exported, profileVars>>

\* the read fails: the FileReader fires error, for which no handler is set
ReaderOnError(i) ==
    /\ i \in 1..Len(readers)
    /\ ~readers[i].readable
    /\ readers' = RemoveAt(readers, i)
    /\ attempt' = [attempt EXCEPT !.outcome = "failed"]
    /\ UNCHANGED <<isProcessing, dataStats, dialogOpen, alerts, importCalls, data,
                   started, parseVars, csvVars, pageVars, tableVars, chartVars, exported,
                   profileVars>>

NextImport ==
    \/ ClickDropzone
    \/ CancelDialog
    \/ \E file \in Files : handleFileUpload(file)
    \/ \E i \in 1..Len(readers) : ReaderOnLoad(i)
    \/ \E i \in 1..Len(readers) : ReaderOnError(i)

SpecImport == InitImport /\ [][NextImport]_vars

\* a read once started ends: the FileReader fires load, or it fires error
SpecImportFair ==
    /\ SpecImport
    /\ WF_vars(\E i \in 1..Len(readers) : ReaderOnLoad(i))
    /\ WF_vars(\E i \in 1..Len(readers) : ReaderOnError(i))

-----------------------------------------------------------------------------
(* Specification SpecTable: AnalysisPage with its DataTable over a loaded dataset *)

CellValues == {Num(1, 0), Str(<<>>), Str(<<"a">>)}

\* records with the column x, and records with x and a column whose name is ''
\* (header lines such as "x," give an empty column name)
NarrowRows == { <<[k |-> <<"x">>, v |-> c]>> : c \in CellValues }
WideRows   == { <<[k |-> <<"x">>, v |-> c], [k |-> <<>>, v |-> d]>> :
                  c \in {Num(1, 0), Str(<<"a">>)}, d \in {Num(1, 0), Str(<<"a">>)} }

SeqsUpTo(S, n) == UNION {[1..k -> S] : k \in 0..n}

\* n records x = n, n-1, ..., 1
LongData(n) == [i \in 1..n |-> <<[k |-> <<"x">>, v |-> Num(n + 1 - i, 0)]>>]

\* a column of texts and a number: x = "a", "B", 1, "B"
MixedData ==
    [i \in 1..4 |->
        <<[k |-> <<"x">>, v |-> <<Str(<<"a">>), Str(<<"B">>), Num(1, 0), Str(<<"B">>)>>[i]]>>]

Datasets ==
    SeqsUpTo(NarrowRows, MaxRows)
      \cup SeqsUpTo(WideRows, MaxWideRows)
      \cup {MixedData}
      \cup {LongData(n) : n \in (PAGE_SIZE - 1)..MaxLongRows}

SearchInputs == {<<>>, <<"A">>}          \* texts typed in the search box
FilterInputs == {<<>>, <<"A">>}          \* texts typed in a column's text filter
RangeInputs  == {<<>>, <<"2">>}         \* values of a column's Min / Max number input
Tabs == {"dashboard", "table", "charts"}

\* the AnalysisPage constructed over one of the given record sets, its
\* Dashboard showing
InitView(datasets) ==
    /\ data \in datasets
    /\ PageIdle
    /\ ProfileIdle
    /\ dashboardChartData \in DashboardChartOutcomes(data, Metadata(data))
    /\ isProcessing = FALSE
    /\ dataStats = NoStats
    /\ dialogOpen = FALSE
    /\ readers = <<>>
    /\ alerts = 0
    /\ importCalls = 0
    /\ started = 0
    /\ attempt = NoAttempt
    /\ raw = Null
    /\ parsed = Pending
    /\ csvText = <<>>
    /\ csvResult = NotRun

InitTable == InitView(Datasets)

notViewVars == <<parseVars, csvVars, isProcessing, dataStats, dialogOpen, readers, alerts,
                 importCalls, started, attempt, profileVars>>

\* the array sorted in place (Dashboard.tsx line 209) is the imported one,
\* whenever the filters keep every record
ProcessedMemo_SortsImported(imported, term, category, cf, rf, sc) ==
    { [filtered |-> out, imported |-> IF Len(out) = Len(imported) THEN out ELSE imported] :
        out \in ProcessedOutcomes(FilteredData(imported, term, category), cf, rf, sc) }

\* Dashboard.tsx lines 189-220 over the arrays: `filtered` starts as a copy
\* (line 190) of the data prop, itself the array that filter built (part_000
\* line 38); the filters build new arrays and sort (line 209) reorders
\* `filtered` in place.  The imported array is only read.
ProcessedMemo(imported, term, category, cf, rf, sc) ==
    { [filtered |-> out, imported |-> imported] :
        out \in ProcessedOutcomes(FilteredData(imported, term, category), cf, rf, sc) }

\* the DataTable re-renders: its memo is recomputed from the new inputs
Recompute(term, category, cf, rf, sc) ==
    \E memo \in ProcessedMemo(data, term, category, cf, rf, sc) :
        /\ processedData' = memo.filtered
        /\ data' = memo.imported

\* the component showing re-renders over the records the new search term and
\* category keep
Rerender(term, category) ==
    /\ IF activeTab = "table"
       THEN Recompute(term, category, columnFilters, rangeFilters, sortConfig)
       ELSE UNCHANGED <<processedData, data, profileVars>>
    /\ IF activeTab = "dashboard"
       THEN dashboardChartData' \in
                DashboardChartOutcomes(FilteredData(data, term, category), metadata)
       ELSE UNCHANGED dashboardChartData
    /\ IF activeTab = "charts"
       THEN chartData' \in
                BuilderChartOutcomes(FilteredData(data, term, category),
                                     chartType, xAxis, yAxis)
       ELSE UNCHANGED chartData

\* a render has raised: nothing of the page is left to act on
Crashed == chartData = ChartThrew

\* part_000 line 118: the search box changes
SearchChange(term) ==
    /\ ~Crashed
    /\ term # searchTerm
    /\ searchTerm' = term
    /\ Rerender(term, globalCategory)
    /\ UNCHANGED <<globalCategory, activeTab, sortConfig, currentPage, columnFilters,
                   rangeFilters, chartType, xAxis, yAxis, exported, notViewVars>>

\* part_000 lines 125-134: an option of the category select is chosen
CategoryChange(category) ==
    /\ ~Crashed
    /\ category \in {All} \cup {categories[i] : i \in 1..Len(categories)}
    /\ category # globalCategory
    /\ globalCategory' = category
    /\ Rerender(searchTerm, category)
    /\ UNCHANGED <<searchTerm, activeTab, sortConfig, currentPage, columnFilters,
                   rangeFilters, chartType, xAxis, yAxis, exported, notViewVars>>

\* ChartBuilder.tsx lines 18-20 and 23-55: a ChartBuilder is constructed; with
\* no column at all, metadata[0].name raises a TypeError
MountBuilder ==
    /\ chartType' = "bar"
    /\ IF metadata = <<>>
       THEN /\ xAxis' = <<>>
            /\ yAxis' = <<>>
            /\ chartData' = ChartThrew
       ELSE /\ xAxis' = InitialAxis(FindStringCol(metadata), metadata)
            /\ yAxis' = InitialAxis(FindNumberCol(metadata), metadata)
            /\ chartData' \in BuilderChartOutcomes(filteredData, "bar", xAxis', yAxis')

\* the ChartBuilder is gone with its state
UnmountBuilder ==
    /\ chartType' = "bar"
    /\ xAxis' = <<>>
    /\ yAxis' = <<>>
    /\ chartData' = ChartUnmounted

\* part_000 lines 94 and 146-148: a tab button; each of Dashboard, DataTable
\* and ChartBuilder exists only on its tab and is constructed anew each time
\* that tab is entered
TabClick(tab) ==
    /\ ~Crashed
    /\ tab # activeTab
    /\ activeTab' = tab
    /\ sortConfig' = NoSort
    /\ currentPage' = 1
    /\ columnFilters' = <<>>
    /\ rangeFilters' = <<>>
    /\ processedData' = IF tab = "table" THEN filteredData ELSE <<>>
    /\ dashboardChartData' \in IF tab = "dashboard"
                                THEN DashboardChartOutcomes(filteredData, metadata)
                                ELSE {<<>>}
    /\ IF tab = "charts" THEN MountBuilder ELSE UnmountBuilder
    /\ UNCHANGED <<searchTerm, globalCategory, exported, data, notViewVars>>

ColumnsOfType(type) ==
    {metadata[i].name : i \in {j \in 1..Len(metadata) : metadata[j].type = type}}

\* Dashboard.tsx lines 277-280: the text filter of a textual column changes
FilterTextChange(col, text) ==
    /\ activeTab = "table"
    /\ col \in ColumnsOfType("string")
    /\ text # (IF ObjHas(columnFilters, col) THEN ObjGet(columnFilters, col).s ELSE <<>>)
    /\ columnFilters' = ObjSet(columnFilters, col, Str(text))
    /\ currentPage' = 1
    /\ Recompute(searchTerm, globalCategory, columnFilters', rangeFilters, sortConfig)
    /\ UNCHANGED <<sortConfig, rangeFilters, pageVars, chartVars, exported, notViewVars>>

NoRange == [min |-> Undefined, max |-> Undefined]
PrevRange(col) == IF ObjHas(rangeFilters, col) THEN RangeOf(rangeFilters, col) ELSE NoRange
ShownText(v) == IF v.t = "string" THEN v.s ELSE <<>>

\* Dashboard.tsx lines 289-292: the Min input of a numeric column changes
RangeMinChange(col, text) ==
    /\ activeTab = "table"
    /\ col \in ColumnsOfType("number")
    /\ text # ShownText(PrevRange(col).min)
    /\ rangeFilters' = ObjSet(rangeFilters, col, [PrevRange(col) EXCEPT !.min = Str(text)])
    /\ currentPage' = 1
    /\ Recompute(searchTerm, globalCategory, columnFilters, rangeFilters', sortConfig)
    /\ UNCHANGED <<sortConfig, columnFilters, pageVars, chartVars, exported, notViewVars>>

\* Dashboard.tsx lines 298-301: the Max input of a numeric column changes
RangeMaxChange(col, text) ==
    /\ activeTab = "table"
    /\ col \in ColumnsOfType("number")
    /\ text # ShownText(PrevRange(col).max)
    /\ rangeFilters' = ObjSet(rangeFilters, col, [PrevRange(col) EXCEPT !.max = Str(text)])
    /\ currentPage' = 1
    /\ Recompute(searchTerm, globalCategory, columnFilters, rangeFilters', sortConfig)
    /\ UNCHANGED <<sortConfig, columnFilters, pageVars, chartVars, exported, notViewVars>>

\* Dashboard.tsx lines 180-186 and 318: a column header is clicked
handleSort(key) ==
    /\ activeTab = "table"
    /\ key \in {metadata[i].name : i \in 1..Len(metadata)}
    /\ sortConfig' = [set |-> TRUE, key |-> key,
                      direction |-> IF sortConfig.set /\ sortConfig.key = key
                                       /\ sortConfig.direction = "asc"
                                    THEN "desc" ELSE "asc"]
    /\ Recompute(searchTerm, globalCategory, columnFilters, rangeFilters, sortConfig')
    /\ UNCHANGED <<currentPage, columnFilters, rangeFilters, pageVars, chartVars, exported,
                   notViewVars>>

\* Dashboard.tsx lines 358-361
PrevPageClick ==
    /\ activeTab = "table"
    /\ currentPage # 1
    /\ currentPage' = currentPage - 1
    /\ UNCHANGED <<sortConfig, columnFilters, rangeFilters, processedData, pageVars,
                   chartVars, exported, data, notViewVars>>

\* Dashboard.tsx lines 379-382
NextPageClick ==
    /\ activeTab = "table"
    /\ currentPage # totalPages
    /\ currentPage < MaxPage
    /\ currentPage' = currentPage + 1
    /\ UNCHANGED <<sortConfig, columnFilters, rangeFilters, processedData, pageVars,
                   chartVars, exported, data, notViewVars>>

\* Dashboard.tsx lines 366-377
PageButtonClick(pageNum) ==
    /\ activeTab = "table"
    /\ pageNum \in 1..(IF totalPages < PAGE_BUTTONS THEN totalPages ELSE PAGE_BUTTONS)
    /\ pageNum # currentPage
    /\ currentPage' = pageNum
    /\ UNCHANGED <<sortConfig, columnFilters, rangeFilters, processedData, pageVars,
                   chartVars, exported, data, notViewVars>>

ColumnNames == {<<"x">>, <<>>}

NextTable ==
    \/ \E term \in SearchInputs : SearchChange(term)
    \/ \E category \in {All} \cup {JsString(c) : c \in CellValues} : CategoryChange(category)
    \/ \E tab \in Tabs : TabClick(tab)
    \/ \E col \in ColumnNames, text \in FilterInputs : FilterTextChange(col, text)
    \/ \E col \in ColumnNames, text \in RangeInputs : RangeMinChange(col, text)
    \/ \E col \in ColumnNames, text \in RangeInputs : RangeMaxChange(col, text)
    \/ \E key \in ColumnNames : handleSort(key)
    \/ PrevPageClick
    \/ NextPageClick
    \/ \E pageNum \in 1..PAGE_BUTTONS : PageButtonClick(pageNum)

SpecTable == InitTable /\ [][NextTable]_vars

-----------------------------------------------------------------------------
(* Specification SpecChart: the Dashboard and the ChartBuilder of an           *)
(* AnalysisPage over bounded record sets with a group and a value column       *)

MaxChartRows == 3       \* most records of a dataset drawn cell by cell (SpecChart)
MaxGroups == 16         \* most groups of a dataset with one record per group (SpecChart)

GroupCells == {Str(<<"a">>), Str(<<"b">>)}
ValueCells == {Num(1, 0), Num(3, 0), Str(<<"a">>)}

\* records with a group column g and a value column v; a record read from a
\* sheet lacks the property of an empty cell
ChartRows ==
    { <<[k |-> <<"g">>, v |-> g], [k |-> <<"v">>, v |-> c]>> :
        g \in GroupCells, c \in ValueCells }
    \cup { <<[k |-> <<"v">>, v |-> c]>> : c \in ValueCells }

\* n records, the i-th in a group of its own (named by a letter) with value i
ManyGroups(n) ==
    [i \in 1..n |-> <<[k |-> <<"g">>, v |-> Str(<<AsciiChars[65 + i]>>)],
                      [k |-> <<"v">>, v |-> Num(i, 0)]>>]

\* an empty text among the values; two textual and two numeric columns
EmptyTextData ==
    << <<[k |-> <<"g">>, v |-> Str(<<"a">>)], [k |-> <<"v">>, v |-> Num(1, 0)]>>,
       <<[k |-> <<"g">>, v |-> Str(<<"a">>)], [k |-> <<"v">>, v |-> Num(3, 0)]>>,
       <<[k |-> <<"g">>, v |-> Str(<<"b">>)], [k |-> <<"v">>, v |-> Str(<<>>)]>> >>
FourColumnData ==
    << <<[k |-> <<"g">>, v |-> Str(<<"a">>)], [k |-> <<"h">>, v |-> Str(<<"b">>)],
         [k |-> <<"v">>, v |-> Num(1, 0)], [k |-> <<"w">>, v |-> Num(3, 0)]>>,
       <<[k |-> <<"g">>, v |-> Str(<<"b">>)], [k |-> <<"h">>, v |-> Str(<<"b">>)],
         [k |-> <<"v">>, v |-> Num(3, 0)], [k |-> <<"w">>, v |-> Num(1, 0)]>> >>

ChartDatasets ==
    SeqsUpTo(ChartRows, MaxChartRows)
    \cup {ManyGroups(n) : n \in (DASHBOARD_GROUPS - 1)..MaxGroups}
    \cup {EmptyTextData, FourColumnData}

InitChart == InitView(ChartDatasets)

ChartTypes == {"bar", "line", "pie", "histogram"}

\* ChartBuilder.tsx line 81: a chart type button
SetChartType(type) ==
    /\ activeTab = "charts"
    /\ ~Crashed
    /\ type # chartType
    /\ chartType' = type
    /\ chartData' \in BuilderChartOutcomes(filteredData, type, xAxis, yAxis)
    /\ UNCHANGED <<xAxis, yAxis, dashboardChartData, exported, pageVars, tableVars, data,
                   notViewVars>>

\* the option a select shows: the one whose value is the state, else the first
Shown(axis, type) ==
    IF axis \in ColumnsOfType(type) THEN axis
    ELSE metadata[CHOOSE i \in 1..Len(metadata) :
                      metadata[i].type = type
                      /\ \A j \in 1..(i - 1) : metadata[j].type # type].name

\* ChartBuilder.tsx lines 92-104: another option of the X select is chosen
SetXAxis(col) ==
    /\ activeTab = "charts"
    /\ ~Crashed
    /\ chartType # "histogram"
    /\ col \in ColumnsOfType("string")
    /\ col # Shown(xAxis, "string")
    /\ xAxis' = col
    /\ chartData' \in BuilderChartOutcomes(filteredData, chartType, col, yAxis)
    /\ UNCHANGED <<chartType, yAxis, dashboardChartData, exported, pageVars, tableVars, data,
                   notViewVars>>

\* ChartBuilder.tsx lines 106-116: another option of the Y select is chosen
SetYAxis(col) ==
    /\ activeTab = "charts"
    /\ ~Crashed
    /\ col \in ColumnsOfType("number")
    /\ col # Shown(yAxis, "number")
    /\ yAxis' = col
    /\ chartData' \in BuilderChartOutcomes(filteredData, chartType, xAxis, col)
    /\ UNCHANGED <<chartType, xAxis, dashboardChartData, exported, pageVars, tableVars, data,
                   notViewVars>>

ChartColumnNames == {<<"g">>, <<"h">>, <<"v">>, <<"w">>}

NextChart ==
    \/ \E term \in SearchInputs : SearchChange(term)
    \/ \E category \in {All} \cup {JsString(c) : c \in GroupCells} : CategoryChange(category)
    \/ \E tab \in Tabs : TabClick(tab)
    \/ \E type \in ChartTypes : SetChartType(type)
    \/ \E col \in ChartColumnNames : SetXAxis(col)
    \/ \E col \in ChartColumnNames : SetYAxis(col)

SpecChart == InitChart /\ [][NextChart]_vars

-----------------------------------------------------------------------------
(* Specification SpecView: the whole AnalysisPage (table, export, dashboard    *)
(* and chart builder) over small record sets                                   *)

MaxViewRows == 2        \* most records of a one-column dataset (SpecView)

\* Array.prototype.join
RECURSIVE Join(_, _)
Join(strs, sep) ==
    IF strs = <<>> THEN <<>>
    ELSE IF Len(strs) = 1 THEN strs[1]
    ELSE strs[1] \o sep \o Join(Tail(strs), sep)

\* Dashboard.tsx line 229: Object.values(row).map(v => `"${v}"`).join(',')
QuotedRow(row) ==
    Join([i \in 1..Len(row) |-> <<"\"">> \o JsString(row[i].v) \o <<"\"">>], <<",">>)

\* Dashboard.tsx lines 228-230: the text of the blob, for a non-empty data prop
CsvBlob(rows) ==
    Join(ObjKeys(rows[1]), <<",">>) \o <<"\n">>
        \o Join([i \in 1..Len(rows) |-> QuotedRow(rows[i])], <<"\n">>)

\* Dashboard.tsx lines 226-236 and 255: the export button; the data prop of the
\* DataTable is AnalysisPage's filteredData (part_000 line 147), and with no
\* record in it the handler returns at once
exportCSV ==
    /\ activeTab = "table"
    /\ filteredData # <<>>
    /\ exported' = [done |-> TRUE, text |-> CsvBlob(filteredData)]
    /\ UNCHANGED <<pageVars, tableVars, chartVars, data, notViewVars>>

ViewDatasets ==
    SeqsUpTo(NarrowRows, MaxViewRows) \cup {LongData(PAGE_SIZE + 1), FourColumnData}

InitWhole == InitView(ViewDatasets)

NextView == NextTable \/ NextChart \/ exportCSV

SpecView == InitWhole /\ [][NextView]_vars

-----------------------------------------------------------------------------
(* Specification SpecProfile: the profile inputs of ProfilePage and            *)
(* handleImageUpload with its FileReader                                       *)

MaxImageReads == 2     \* most image reads in flight at once (SpecProfile)

NameInputs == {<<>>, <<"a">>}        \* texts of the name and organization inputs
ImageFiles == {<<"p">>, <<"q">>}     \* data URLs that image reads deliver

\* the parent's onProfileUpdate: the profile store holds the profile it is
\* given, and passes it back as the prop profile of the next render
onProfileUpdate(p) == profile' = p

\* line 160: onChange of the full name input
FullNameChange(text) ==
    /\ onProfileUpdate([profile EXCEPT !.fullName = text])
    /\ UNCHANGED <<imageReads, parseVars, csvVars, importVars, pageVars, tableVars,
                   chartVars, exported>>

\* line 170: onChange of the organization input
OrganizationChange(text) ==
    /\ onProfileUpdate([profile EXCEPT !.organization = text])
    /\ UNCHANGED <<imageReads, parseVars, csvVars, importVars, pageVars, tableVars,
                   chartVars, exported>>

\* lines 113-121: an image file is chosen; reader.onload closes over the
\* profile of the render that created the handler
handleImageUpload(file) ==
    /\ Len(imageReads) < MaxImageReads
    /\ imageReads' = Append(imageReads, [profile |-> profile, result |-> file])
    /\ UNCHANGED <<profile, parseVars, csvVars, importVars, pageVars, tableVars,
                   chartVars, exported>>

\* lines 117-119: reader.onload of an image read
ImageOnLoad(i) ==
    /\ i \in 1..Len(imageReads)
    /\ onProfileUpdate([imageReads[i].profile EXCEPT !.image = imageReads[i].result])
    /\ imageReads' = RemoveAt(imageReads, i)
    /\ UNCHANGED <<parseVars, csvVars, importVars, pageVars, tableVars, chartVars,
                   exported>>

\* the image read fails: the FileReader fires error, for which no handler is set
ImageOnError(i) ==
    /\ i \in 1..Len(imageReads)
    /\ imageReads' = RemoveAt(imageReads, i)
    /\ UNCHANGED <<profile, parseVars, csvVars, importVars, pageVars, tableVars,
                   chartVars, exported>>

NextProfile ==
    \/ \E text \in NameInputs : FullNameChange(text)
    \/ \E text \in NameInputs : OrganizationChange(text)
    \/ \E file \in ImageFiles : handleImageUpload(file)
    \/ \E i \in 1..Len(imageReads) : ImageOnLoad(i)
    \/ \E i \in 1..Len(imageReads) : ImageOnError(i)

SpecProfile == InitImport /\ [][NextProfile]_vars

-----------------------------------------------------------------------------
(* Claims *)

Chars(s) == {s[i] : i \in 1..Len(s)}

\* C1: for a raw cell that is a text, robustParseValue returns a number if and
\* only if (a) the numeric parse of the stripped candidate succeeds and (b) the
\* trimmed text consists only of digits, '.', ',', whitespace, '$', '%', '+',
\* '-'; in every other case it returns the trimmed text itself.
C1_ParseContract ==
    (parsed # Pending /\ raw.t = "string") =>
        LET clean   == Trim(raw.s)
            parseOk == ParseFloat(NumericCandidate(clean)) # NaN
            looksOk == /\ clean # <<>>
                       /\ Chars(clean) \subseteq
                             (Digits \cup {".", ",", " ", "\t", "\n", "\r", "$", "%", "+", "-"})
        IN  /\ IsNumber(parsed) <=> (parseOk /\ looksOk)
            /\ ~(parseOk /\ looksOk) => parsed = Str(clean)

\* a text whose candidate parses but which the guard keeps as text, returned untouched
C1_Witness ==
    /\ parsed # Pending /\ raw.t = "string"
    /\ ParseFloat(NumericCandidate(Trim(raw.s))) # NaN
    /\ "a" \in Chars(raw.s)
    /\ parsed = Str(Trim(raw.s))
    /\ parsed.s # NumericCandidate(Trim(raw.s))

Letters == {"a"}
NumberLikeClass == Digits \cup {".", ",", "-", "$", "%"}

\* C2 as stated: every non-empty text of digits, separators and currency/percent
\* symbols yields a number; every text containing a letter is returned trimmed.
C2_Original ==
    (parsed # Pending /\ raw.t = "string") =>
        /\ (raw.s # <<>> /\ Chars(raw.s) \subseteq NumberLikeClass) => IsNumber(parsed)
        /\ (Chars(raw.s) \cap Letters # {}) => parsed = Str(Trim(raw.s))

\* the text, '$' and '%' removed, starts (after at most one leading '-') with a
\* digit, or with a '.' or ',' immediately followed by a digit
StartsNumeric(s) ==
    LET d    == SelectSeq(s, LAMBDA c : c \notin {"$", "%"})
        body == IF d # <<>> /\ d[1] = "-" THEN Tail(d) ELSE d
    IN  /\ body # <<>>
        /\ \/ body[1] \in Digits
           \/ body[1] \in {".", ","} /\ Len(body) >= 2 /\ body[2] \in Digits

\* C2 (amended): a non-empty text of digits, separators and currency/percent
\* symbols yields a number exactly when it starts numerically (StartsNumeric) and
\* is returned as it is otherwise; a text containing a letter is returned trimmed.
C2_NumberLikeTexts ==
    (parsed # Pending /\ raw.t = "string") =>
        /\ (raw.s # <<>> /\ Chars(raw.s) \subseteq NumberLikeClass) =>
               /\ IsNumber(parsed) <=> StartsNumeric(raw.s)
               /\ ~StartsNumeric(raw.s) => parsed = Str(raw.s)
        /\ (Chars(raw.s) \cap Letters # {}) => parsed = Str(Trim(raw.s))

\* a currency-formatted text with a decimal comma parsed to a number
C2_Witness ==
    /\ parsed # Pending /\ raw.t = "string"
    /\ {"$", ","} \subseteq Chars(raw.s)
    /\ Chars(raw.s) \subseteq NumberLikeClass
    /\ IsNumber(parsed)

\* the non-blank lines of a text, its header names, and the i-th token of a line
\* ('' when the line has fewer tokens)
NonBlankLines(text) == SelectSeq(SplitLines(text), LAMBDA l : Trim(l) # <<>>)
HeaderNames(text) ==
    LET hs == SplitCsvLine(NonBlankLines(text)[1])
    IN  [i \in 1..Len(hs) |-> StripQuotes(Trim(hs[i]))]
TokenAt(line, i) ==
    LET ts == SplitCsvLine(line)
    IN  IF i <= Len(ts) THEN StripQuotes(Trim(ts[i])) ELSE <<>>
LastPositionOf(hs, i) == CHOOSE k \in 1..Len(hs) :
    hs[k] = hs[i] /\ \A k2 \in 1..Len(hs) : hs[k2] = hs[i] => k2 <= k

C3_FailedImport ==
    attempt.outcome = "failed" =>
        /\ importCalls = attempt.callsBefore
        /\ dataStats = attempt.statsBefore
        /\ data = attempt.dataBefore
        /\ alerts = attempt.alertsBefore + 1

Records(rows) == {rows[i] : i \in 1..Len(rows)}
Occurs(row, rows) == row \in Records(rows)
Count(row, rows) == Cardinality({i \in 1..Len(rows) : rows[i] = row})
SameRecords(a, b) ==
    \A r \in Records(a) \cup Records(b) : Count(r, a) = Count(r, b)
NumbersIn(d, name) ==
    Cardinality({j \in 1..Len(d) :
        \E c \in 1..Len(d[j]) : d[j][c].k = name /\ d[j][c].v.t = "number"})

\* C5: for a non-empty record set, metadata has one entry per column of the
\* first record, in that record's column order, and a column is numeric if and
\* only if strictly more than half of the records hold a number in it (an
\* exact half is textual); for an empty record set metadata is empty.
C5_MetadataInference ==
    /\ data = <<>> => metadata = <<>>
    /\ data # <<>> =>
          /\ Len(metadata) = Len(data[1])
          /\ \A i \in 1..Len(metadata) :
                /\ metadata[i].name = data[1][i].k
                /\ metadata[i].type \in {"number", "string"}
                /\ metadata[i].type = "number"
                      <=> 2 * NumbersIn(data, metadata[i].name) > Len(data)

\* two records, one number: the exact half is textual, so the column was
\* offered, and given, a text filter
C5_Witness ==
    /\ Len(data) = 2
    /\ NumbersIn(data, <<"x">>) = 1
    /\ metadata[1] = [name |-> <<"x">>, type |-> "string"]
    /\ ObjHas(columnFilters, <<"x">>)

\* C6: the kept records are exactly the records that pass the search, the
\* category filter, every column text filter and every column range filter,
\* each taken alone over the whole record set; applying the filters in the
\* opposite order keeps the same records.
C6_ConjunctiveFilters ==
    activeTab = "table" =>
        LET bySearch   == Records(SelectSeq(data, LAMBDA row : MatchesSearch(row, searchTerm)))
            byCategory == Records(SelectSeq(data, LAMBDA row :
                                      MatchesCategory(row, metadata, globalCategory)))
            byText     == {Records(ApplyColumnFilters(data, <<col>>, columnFilters)) :
                               col \in {columnFilters[c].k : c \in 1..Len(columnFilters)}}
            byRange    == {Records(ApplyRangeFilters(data, <<col>>, rangeFilters)) :
                               col \in {rangeFilters[c].k : c \in 1..Len(rangeFilters)}}
            passesAll(row) ==
                /\ row \in bySearch
                /\ row \in byCategory
                /\ \A passing \in byText \cup byRange : row \in passing
            kept     == SelectSeq(data, passesAll)
            opposite == SelectSeq(
                            ApplyColumnFilters(
                                ApplyRangeFilters(data, ObjKeys(rangeFilters), rangeFilters),
                                ObjKeys(columnFilters), columnFilters),
                            LAMBDA row : /\ MatchesCategory(row, metadata, globalCategory)
                                         /\ MatchesSearch(row, searchTerm))
        IN  /\ SameRecords(processedData, kept)
            /\ ~sortConfig.set => processedData = kept
            /\ opposite = kept

\* a search, a category, a text filter and a range bound all in force, a record kept
C6_Witness ==
    /\ activeTab = "table"
    /\ searchTerm # <<>>
    /\ globalCategory # All
    /\ \E c \in 1..Len(columnFilters) : columnFilters[c].v.s # <<>>
    /\ \E c \in 1..Len(rangeFilters) : Truthy(rangeFilters[c].v.max)
    /\ processedData # <<>>

\* C7: once a min or max bound is set on a column's range filter, every record
\* in the view holds a number in that column, within the bounds that are set;
\* and every record that passes the other filters and holds, in every column
\* with a bound, a number within the bounds, is in the view.
C7_RangeDropsNonNumbers ==
    activeTab = "table" =>
        LET bounded(c) == Truthy(rangeFilters[c].v.min) \/ Truthy(rangeFilters[c].v.max)
            within(row, c) ==
                LET v == ObjGet(row, rangeFilters[c].k)
                IN  /\ IsNumber(v)
                    /\ Truthy(rangeFilters[c].v.min)
                          => NumLessEq(ToNumber(rangeFilters[c].v.min), v)
                    /\ Truthy(rangeFilters[c].v.max)
                          => NumLessEq(v, ToNumber(rangeFilters[c].v.max))
            others == ApplyColumnFilters(filteredData, ObjKeys(columnFilters), columnFilters)
        IN  \A c \in 1..Len(rangeFilters) :
                bounded(c) =>
                    /\ \A i \in 1..Len(processedData) : within(processedData[i], c)
                    /\ \A i \in 1..Len(others) :
                          (\A c2 \in 1..Len(rangeFilters) : bounded(c2) => within(others[i], c2))
                              => Occurs(others[i], processedData)

FirstTextual ==
    CHOOSE i \in 1..Len(metadata) :
        metadata[i].type = "string" /\ \A j \in 1..(i - 1) : metadata[j].type # "string"

\* C8: the category filter, the category list and the dashboard's grouping
\* column all use the first textual column in metadata order; with a category
\* other than "All" selected a record is kept if and only if its stringified
\* value in that column equals the category, and with "All" the filter drops
\* nothing.
C8_CategoryColumn ==
    (\E i \in 1..Len(metadata) : metadata[i].type = "string") =>
        LET col       == metadata[FirstTextual].name
            cell(row) == JsString(ObjGet(row, col))
            bySearch  == SelectSeq(data, LAMBDA row : MatchesSearch(row, searchTerm))
        IN  /\ {categories[i] : i \in 1..Len(categories)}
                  = {cell(data[j]) : j \in 1..Len(data)} \ {<<>>}
            /\ DashboardStringCol(metadata) = Str(col)
            /\ globalCategory = All => filteredData = bySearch
            /\ globalCategory # All =>
                  filteredData = SelectSeq(bySearch, LAMBDA row : cell(row) = globalCategory)

\* C9: with a sort set, the view is a permutation of the filtered records, and
\* any two records that the comparator makes equal (result 0) stand in the
\* view in the same relative order as in the filtered records.
C9_StableSort ==
    (activeTab = "table" /\ sortConfig.set) =>
        LET input == TableFiltered(filteredData, columnFilters, rangeFilters)
            only(rows, r, q) == SelectSeq(rows, LAMBDA x : x \in {r, q})
        IN  /\ SameRecords(processedData, input)
            /\ \A i, j \in 1..Len(input) :
                  Compare(input[i], input[j], sortConfig) = 0 =>
                      only(processedData, input[i], input[j]) = only(input, input[i], input[j])

RECURSIVE PagesUpTo(_, _)
PagesUpTo(rows, n) == IF n = 0 THEN <<>> ELSE PagesUpTo(rows, n - 1) \o PageOf(rows, n)

\* C10: every page slice has at most PAGE_SIZE (10) records, totalPages is the
\* least number of pages of 10 that hold all the records (0 for an empty
\* view), and the slices of pages 1..totalPages, concatenated in order, are the
\* view itself.
C10_Pagination ==
    /\ Len(paginatedData) <= PAGE_SIZE
    /\ \A p \in 1..(MaxPage + 1) : Len(PageOf(processedData, p)) <= PAGE_SIZE
    /\ totalPages >= 0
    /\ totalPages * PAGE_SIZE >= Len(processedData)
    /\ (totalPages - 1) * PAGE_SIZE < Len(processedData)
    /\ PagesUpTo(processedData, totalPages) = processedData

\* twenty-one records, the third page shown: the one record left over
C10_Witness ==
    /\ Len(processedData) = 2 * PAGE_SIZE + 1
    /\ totalPages = 3
    /\ currentPage = 3
    /\ paginatedData = <<processedData[2 * PAGE_SIZE + 1]>>

\* C11: the current page resets to 1 whenever any filter changes: after any
\* change to the search term, the global category, a column text filter or a
\* column range bound, the table's current page is 1.
C11_PageResets ==
    [][(\/ searchTerm' # searchTerm
        \/ globalCategory' # globalCategory
        \/ columnFilters' # columnFilters
        \/ rangeFilters' # rangeFilters) => currentPage' = 1]_vars

\* the groups of the records a chart reads, each with its mean
DashboardGroups ==
    LET rows == Slice(filteredData, 0, DASHBOARD_ROWS)
    IN  Records(MeansOf(Grouped(
            [i \in 1..Len(rows) |-> JsString(ObjGet(rows[i], DashboardStringCol(metadata).s))],
            [i \in 1..Len(rows) |-> ToNumber(ObjGet(rows[i], FindNumberCol(metadata).s))])))
BuilderGroups ==
    LET rows == Slice(filteredData, 0, BUILDER_ROWS)
    IN  Records(MeansOf(Grouped(
            [i \in 1..Len(rows) |-> XValue(ObjGet(rows[i], xAxis))],
            [i \in 1..Len(rows) |-> YValue(ToNumber(ObjGet(rows[i], yAxis)))])))

DashboardCharted ==
    /\ activeTab = "dashboard"
    /\ Truthy(DashboardStringCol(metadata))
    /\ Truthy(FindNumberCol(metadata))
BuilderCharted ==
    /\ activeTab = "charts"
    /\ chartType # "histogram"
    /\ chartData.st = "ok"

RatioLess(a, b) == ~a.nan /\ ~b.nan /\ a.p * b.q < b.p * a.q

\* shown holds the `limit` entries of highest mean among groups, highest first
IsTop(shown, groups, limit) ==
    /\ Len(shown) = (IF Cardinality(groups) < limit THEN Cardinality(groups) ELSE limit)
    /\ \A i \in 1..Len(shown) : shown[i] \in groups
    /\ \A i, j \in 1..Len(shown) : i < j =>
          /\ shown[i].name # shown[j].name
          /\ ~RatioLess(shown[i].value, shown[j].value)
    /\ \A g \in groups \ Records(shown) :
          \A i \in 1..Len(shown) : ~RatioLess(shown[i].value, g.value)

\* C12: group-mean returns the `limit` groups with the highest means among all
\* groups of the (capped) input, in descending order of mean, in the chart
\* builder (limit 15) and in the dashboard (limit 10); stated for groups whose
\* means are all numbers.
C12_TopGroupMeans ==
    /\ (BuilderCharted /\ \A g \in BuilderGroups : ~g.value.nan)
          => IsTop(chartData.rows, BuilderGroups, BUILDER_GROUPS)
    /\ (DashboardCharted /\ \A g \in DashboardGroups : ~g.value.nan)
          => IsTop(dashboardChartData, DashboardGroups, DASHBOARD_GROUPS)

NotAvailable == <<"N", "/", "A">>

\* the value column over the records whose group cell is missing (name
\* "N/A") or reads name, a cell that is no number counting as 0
ExpectedValues(rows, groupCol, valueCol, name) ==
    LET members == SelectSeq(rows, LAMBDA row :
                       IF ObjHas(row, groupCol)
                       THEN JsString(ObjGet(row, groupCol)) = name
                       ELSE name = NotAvailable)
    IN  [i \in 1..Len(members) |->
            IF IsNumber(ObjGet(members[i], valueCol))
            THEN ObjGet(members[i], valueCol) ELSE Num(0, 0)]

Defaulted(shown, rows, groupCol, valueCol, limit) ==
    /\ \A i \in 1..Len(shown) :
          /\ ~shown[i].value.nan
          /\ ExpectedValues(rows, groupCol, valueCol, shown[i].name) # <<>>
          /\ shown[i].value = Mean(ExpectedValues(rows, groupCol, valueCol, shown[i].name))
    /\ (Len(shown) < limit /\ \E j \in 1..Len(rows) : ~ObjHas(rows[j], groupCol))
          => \E i \in 1..Len(shown) : shown[i].name = NotAvailable

\* C13: in group-mean a record with a missing group-column value is grouped
\* under "N/A" and a value-column entry that is not numeric contributes 0 to
\* its group's mean, so every returned group value is a number, never NaN, in
\* the chart builder and in the dashboard.
C13_GroupMeanDefaults ==
    /\ BuilderCharted =>
          Defaulted(chartData.rows, Slice(filteredData, 0, BUILDER_ROWS), xAxis, yAxis,
                    BUILDER_GROUPS)
    /\ DashboardCharted =>
          Defaulted(dashboardChartData, Slice(filteredData, 0, DASHBOARD_ROWS),
                    DashboardStringCol(metadata).s, FindNumberCol(metadata).s,
                    DASHBOARD_GROUPS)

RECURSIVE Total(_)
Total(counts) == IF counts = <<>> THEN 0 ELSE Head(counts) + Total(Tail(counts))

HistogramShown == activeTab = "charts" /\ chartType = "histogram"

\* C14: the histogram's bin frequencies sum to the number of records holding a
\* number in the value column (texts, the empty text included, and missing
\* values are dropped), each counted in one bin of index 0..9.
C14_HistogramCounts ==
    (HistogramShown /\ chartData.st = "ok") =>
        /\ Len(chartData.rows) \in {0, BINS}
        /\ Total(chartData.rows) = NumbersIn(filteredData, yAxis)

\* C15: the histogram computation completes and returns a result without
\* raising, for every record set, also when all numeric values of the column
\* are equal (bin width 0) or there is a single numeric value.
C15_HistogramCompletes ==
    HistogramShown => chartData.st = "ok"

\* C16: export produces a header row of the dataset's column names followed by
\* exactly one row per imported record of the full dataset, not of the
\* filtered view, whatever the search term, global category, column filters,
\* range filters, sort and page.
C16_ExportsFullDataset ==
    exported.done => exported.text = CsvBlob(data)

\* C17: the imported record set is never mutated in place: no search,
\* category, column-filter, range-filter, sort, page, chart or export
\* operation changes the imported record sequence (its records, their order,
\* their cell values).
C17_ImportedUnchanged ==
    [][data' = data]_vars

\* after an export, a sorted view shows all the records in another order than
\* the imported one
C17_Witness ==
    /\ activeTab = "table"
    /\ sortConfig.set
    /\ exported.done
    /\ Len(processedData) = Len(data)
    /\ SameRecords(processedData, data)
    /\ processedData # data

\* the tokens of a line cut at the positions P, each trimmed and then relieved
\* of one leading and one trailing double quote
RECURSIVE CutAt(_, _, _, _)
CutAt(s, P, i, cur) ==
    IF i > Len(s) THEN <<StripQuotes(Trim(cur))>>
    ELSE IF i \in P THEN <<StripQuotes(Trim(cur))>> \o CutAt(s, P, i + 1, <<>>)
    ELSE CutAt(s, P, i + 1, Append(cur, s[i]))

QuotesBefore(s, i) == Cardinality({j \in 1..(i - 1) : s[j] = "\""})
QuotesAfter(s, i) == Cardinality({j \in (i + 1)..Len(s) : s[j] = "\""})

\* the commas of a line that do not stand between an opening double quote and
\* the double quote closing it
OutsideQuotes(s) ==
    {i \in 1..Len(s) : s[i] = "," /\ ~(QuotesBefore(s, i) % 2 = 1 /\ QuotesAfter(s, i) > 0)}

\* the commas of a line followed by an even number of double quotes
EvenQuotesAhead(s) ==
    {i \in 1..Len(s) : s[i] = "," /\ QuotesAfter(s, i) % 2 = 0}

\* the records read from the text are those its lines give when cut at cuts(line)
ReadAsCutAt(cuts(_)) ==
    LET lines == NonBlankLines(csvText)
        hs    == CutAt(lines[1], cuts(lines[1]), 1, <<>>)
        rows  == csvResult.rows
    IN  \A j \in 1..Len(rows) :
           LET ts == CutAt(lines[j + 1], cuts(lines[j + 1]), 1, <<>>)
           IN  /\ {rows[j][c].k : c \in 1..Len(rows[j])} = {hs[i] : i \in 1..Len(hs)}
               /\ \A i \in 1..Len(hs) :
                     ObjGet(rows[j], hs[i]) =
                         robustParseValue(Str(IF LastPositionOf(hs, i) <= Len(ts)
                                              THEN ts[LastPositionOf(hs, i)] ELSE <<>>))

\* C18 as stated: a line is split only on commas not enclosed in a pair of
\* double quotes (a comma inside a quoted field never starts a new token), the
\* tokens stripped of surrounding whitespace and double quotes: the column
\* names read are those of the header cut at some of its commas outside quotes.
C18_Original ==
    csvResult.st = "ok" =>
        LET header == NonBlankLines(csvText)[1]
        IN  \E P \in SUBSET OutsideQuotes(header) :
                \A j \in 1..Len(csvResult.rows) :
                    {csvResult.rows[j][c].k : c \in 1..Len(csvResult.rows[j])}
                        = {CutAt(header, P, 1, <<>>)[i] :
                               i \in 1..Len(CutAt(header, P, 1, <<>>))}

\* C18 (amended): a line is split at exactly the commas followed, up to the end
\* of the line, by an even number of double quotes; in a line whose double
\* quotes are balanced these are exactly the commas outside quoted fields;
\* each token is trimmed and then loses one leading and one trailing double
\* quote, if present.
C18_QuoteAwareTokens ==
    csvResult.st = "ok" =>
        /\ ReadAsCutAt(EvenQuotesAhead)
        /\ \A l \in Records(NonBlankLines(csvText)) :
              QuotesFrom(l, 1) % 2 = 0 => EvenQuotesAhead(l) = OutsideQuotes(l)

\* a header that is one quoted field holding a comma, read as one column
C18_Witness ==
    /\ csvResult.st = "ok"
    /\ NonBlankLines(csvText)[1] = <<"\"", ",", "\"">>
    /\ \A j \in 1..Len(csvResult.rows) : ObjKeys(csvResult.rows[j]) = <<<<",">>>>

\* C19: in every state reachable through the table's UI actions the current
\* page is in range: 1 <= currentPage <= max(1, totalPages), also when the
\* view is empty (totalPages = 0) and when a filter change shrinks the view.
C19_PageInRange ==
    activeTab = "table" =>
        /\ 1 <= currentPage
        /\ currentPage <= (IF totalPages > 1 THEN totalPages ELSE 1)

\* C20: after every import attempt, whether the read and parse succeed, the
\* parse fails, or the file cannot be read, the processing flag eventually
\* returns to false.
C20_ProcessingEnds ==
    isProcessing ~> ~isProcessing

\* C21: with a sort key set, the view is ordered by the native comparison of
\* the values of the sort column: of two records of the view the earlier
\* one's value is not greater than the later one's when the direction is
\* ascending, and not less when it is descending; and this whatever the column
\* holds (numbers, texts, or both).
C21_SortedByColumn ==
    (activeTab = "table" /\ sortConfig.set) =>
        \A i, j \in 1..Len(processedData) :
            i < j =>
                LET first  == SortValue(processedData[i], sortConfig.key)
                    second == SortValue(processedData[j], sortConfig.key)
                IN  IF sortConfig.direction = "asc" THEN ~JsLess(second, first)
                    ELSE ~JsLess(first, second)

\* C22: at most one import is in flight at any time. While isProcessing is
\* true a read is the only thing that can be pending: the dropzone opens no
\* file chooser; every read in flight has isProcessing true; and when an
\* import commits a dataset (onDataImport is called) it is the one import in
\* flight, the latest one started, and the dataset is the one read from its
\* file.
C22_OneImportInFlight ==
    /\ [](/\ Len(readers) <= 1
          /\ readers # <<>> => isProcessing
          /\ isProcessing => ~dialogOpen)
    /\ [][importCalls' # importCalls =>
             /\ Len(readers) = 1
             /\ readers' = <<>>
             /\ data' = JsonDataOf(readers[Len(readers)]).rows]_vars

\* a second import is in flight after a first one has committed its dataset
C22_Witness ==
    /\ importCalls >= 1
    /\ readers # <<>>
    /\ isProcessing
    /\ started >= 2

\* C23: a profile edit made while an image read is in flight is not lost: the
\* profile that the completed image load gives to onProfileUpdate carries the
\* full name and the organization that are current when the load completes.
C23_EditsKept ==
    [][(\E i \in 1..Len(imageReads) : ImageOnLoad(i)) =>
           /\ profile'.fullName = profile.fullName
           /\ profile'.organization = profile.organization]_vars

\* C24: every dataset committed through onDataImport is non-empty, whatever
\* the format of the file: a CSV without a data row and a workbook whose first
\* sheet decodes to no record are import failures, not empty datasets.
C24_CommitsNonEmpty ==
    importCalls > 0 => data # <<>>

====
